---- MODULE Spec2Model ----
(***************************************************************************)
(* UserClient (src/unnamed/part_000) and Artist (src/structures/Artist.ts) *)
(* of spotify-api.js as state machines.                                    *)
(*                                                                         *)
(* A method call runs synchronously up to its first await (the request is  *)
(* built from the arguments and from this.* at that moment), then waits    *)
(* for the HTTP util; when the util resolves or rejects, the rest of the   *)
(* method runs to completion in one step of the event loop.                *)
(***************************************************************************)
EXTENDS Integers, Sequences, FiniteSets, Bags, TLC

(***************************************************************************)
(* Bounds of the model.                                                    *)
(***************************************************************************)
MaxOps == 2        \* calls started in one behaviour, all of which may overlap
MaxIds == 2        \* length of an id list passed to a variadic method

(***************************************************************************)
(* JavaScript values.  Every value carries its type tag t and a payload v. *)
(* An object is a set of <<key, value>> pairs with distinct keys, an array *)
(* a sequence of values, a string a TLA+ string.                           *)
(***************************************************************************)
JsUndefined == [t |-> "undefined", v |-> 0]
JsBool(b) == [t |-> "boolean", v |-> b]
JsNum(n) == [t |-> "number", v |-> n]
JsStr(s) == [t |-> "string", v |-> s]
JsArr(xs) == [t |-> "array", v |-> xs]
JsObj(ps) == [t |-> "object", v |-> ps]
JsThis == [t |-> "this", v |-> 0]

\* ToBoolean: undefined, false, 0 and '' are falsy, everything else truthy.
Truthy(x) ==
    CASE x.t = "undefined" -> FALSE
      [] x.t = "boolean" -> x.v
      [] x.t = "number" -> x.v # 0
      [] x.t = "string" -> x.v # ""
      [] OTHER -> TRUE

\* a || b
JsOr(a, b) == IF Truthy(a) THEN a ELSE b

\* 'k' in o
HasKey(o, k) == o.t = "object" /\ \E p \in o.v : p[1] = k

\* o.k on a value that can carry properties: undefined when the key is absent.
Get(o, k) ==
    IF HasKey(o, k) THEN (CHOOSE p \in o.v : p[1] = k)[2] ELSE JsUndefined

\* o.k raises TypeError exactly when o is undefined (or null).
CanRead(o) == o.t # "undefined"

\* xs[i] of an array, 0-based: undefined past the end.
JsIndex(xs, i) == IF i + 1 <= Len(xs.v) THEN xs.v[i + 1] ELSE JsUndefined

(***************************************************************************)
(* Outcomes of a call, and the errors a call can meet.                     *)
(***************************************************************************)
Returned(x) == [kind |-> "returned", value |-> x]
Raised(e) == [kind |-> "raised", value |-> e]

TransportError == [t |-> "error", v |-> "TransportError"]
TypeError == [t |-> "error", v |-> "TypeError"]
\* new UnexpectedError(e)
UnexpectedError(e) == [t |-> "UnexpectedError", v |-> e.v]

\* What the HTTP util hands back to an awaiting method.
Resolve(data) == [ok |-> TRUE, data |-> data]
Reject == [ok |-> FALSE, data |-> TransportError]

VARIABLES
    throwErrors,  \* the process-wide "throw on error" configuration
    profile,      \* the ten cached fields of the UserClient
    remote,       \* the current user's library on the streaming service
    inflight,     \* the bag of calls awaiting their response
    started,      \* number of calls started so far
    last,         \* the call that completed most recently
    hist,         \* what the info() calls have done so far
    entity,       \* the Artist under observation
    built,        \* the last run of the Artist constructor
    fetching,     \* the id a pending Artist.fetch() has asked for, if any
    fetched       \* the last Artist.fetch() that completed

userVars == <<throwErrors, profile, remote, inflight, started, last, hist>>
artistVars == <<entity, built, fetching, fetched>>
vars == <<throwErrors, profile, remote, inflight, started, last, hist,
          entity, built, fetching, fetched>>

(***************************************************************************)
(* Errors.handleError (imported at part_000:2).  It raises UnexpectedError *)
(* when the process is configured to throw and returns a falsy value       *)
(* otherwise.                                                              *)
(***************************************************************************)
handleError(e, throws) ==
    IF throws THEN Raised(UnexpectedError(e)) ELSE Returned(JsUndefined)

\* catch(e){ return handleError(e); }: the fallback is left out
CatchFallback_noFallback(e, fallback, throws) == handleError(e, throws)

\* catch(e){ return handleError(e) || fallback; }
CatchFallback(e, fallback, throws) ==
    LET h == handleError(e, throws)
    IN IF h.kind = "raised" THEN h ELSE Returned(JsOr(h.value, fallback))

\* { limit: 0, offset: 0, total: 0, items: [] }
ZeroPaging ==
    JsObj({<<"limit", JsNum(0)>>, <<"offset", JsNum(0)>>,
           <<"total", JsNum(0)>>, <<"items", JsArr(<<>>)>>})

(***************************************************************************)
(* UserClient constructor: the cached profile of a new client.             *)
(***************************************************************************)
UserClientInit ==
    [name |-> JsStr(""), country |-> JsStr(""), email |-> JsStr("unknown"),
     externalUrls |-> JsObj({}), totalFollowers |-> JsNum(0),
     product |-> JsStr("unknown"), images |-> JsArr(<<>>), uri |-> JsStr(""),
     id |-> JsStr(""), href |-> JsStr("")]

(***************************************************************************)
(* info(): the body of the try block after the await, statement by         *)
(* statement.  data.display_name raises when data is undefined, and        *)
(* data.followers.total raises when data has no followers; the assignments *)
(* made before the raising statement stay.                                 *)
(***************************************************************************)
\* this.country = data.country: the default is left out
InfoAssignHead_noDefault(self, data) ==
    [self EXCEPT !.name = Get(data, "display_name"),
                 !.country = Get(data, "country"),
                 !.id = Get(data, "id"),
                 !.email = JsOr(Get(data, "email"), JsStr("unknown")),
                 !.externalUrls = Get(data, "external_urls")]

InfoAssignHead(self, data) ==
    [self EXCEPT !.name = Get(data, "display_name"),
                 !.country = JsOr(Get(data, "country"), JsStr("unknown")),
                 !.id = Get(data, "id"),
                 !.email = JsOr(Get(data, "email"), JsStr("unknown")),
                 !.externalUrls = Get(data, "external_urls")]

InfoAssignTail(self, data) ==
    [self EXCEPT !.totalFollowers = Get(Get(data, "followers"), "total"),
                 !.href = Get(data, "href"),
                 !.images = Get(data, "images"),
                 !.product = JsOr(Get(data, "product"), JsStr("unknown")),
                 !.uri = Get(data, "uri")]

\* a profile that is already filled is kept: if(this.id) return this;
InfoAssign_once(self, data) ==
    IF Truthy(self.id) THEN [self |-> self, threw |-> FALSE]
    ELSE IF ~CanRead(data) THEN [self |-> self, threw |-> TRUE]
    ELSE IF ~CanRead(Get(data, "followers"))
         THEN [self |-> InfoAssignHead(self, data), threw |-> TRUE]
         ELSE [self |-> InfoAssignTail(InfoAssignHead(self, data), data),
               threw |-> FALSE]

InfoAssign(self, data) ==
    IF ~CanRead(data) THEN [self |-> self, threw |-> TRUE]
    ELSE IF ~CanRead(Get(data, "followers"))
         THEN [self |-> InfoAssignHead(self, data), threw |-> TRUE]
         ELSE [self |-> InfoAssignTail(InfoAssignHead(self, data), data),
               threw |-> FALSE]

\* The whole of info() once the util has answered: new profile and outcome.
InfoThen(self, resp) ==
    IF ~resp.ok THEN [self |-> self, out |-> Raised(UnexpectedError(resp.data))]
    ELSE LET a == InfoAssign(self, resp.data)
         IN [self |-> a.self,
             out |-> IF a.threw THEN Raised(UnexpectedError(TypeError))
                     ELSE Returned(JsThis)]

(***************************************************************************)
(* Artist constructor.  threw is TRUE when the constructor raises          *)
(* TypeError: data.followers.total is read only when data has the key      *)
(* popularity, and raises when data has no followers object.               *)
(***************************************************************************)
ArtistSimplified(data) ==
    [data |-> data,
     externalUrls |-> Get(data, "external_urls"),
     href |-> Get(data, "href"),
     id |-> Get(data, "id"),
     name |-> Get(data, "name"),
     type |-> Get(data, "type"),
     uri |-> Get(data, "uri"),
     images |-> JsOr(Get(data, "images"), JsArr(<<>>)),
     simplified |-> JsBool(TRUE),
     totalFollowers |-> JsUndefined,
     genres |-> JsUndefined,
     popularity |-> JsUndefined]

\* if(data.popularity): the value is tested instead of the key
ArtistIsFull_truthy(data) == Truthy(Get(data, "popularity"))

\* if('popularity' in data)
ArtistIsFull(data) == HasKey(data, "popularity")

ArtistCtor(data) ==
    LET base == ArtistSimplified(data)
    IN IF ~ArtistIsFull(data) THEN [threw |-> FALSE, artist |-> base]
       ELSE IF ~CanRead(Get(data, "followers"))
            THEN [threw |-> TRUE, artist |-> base]
            ELSE [threw |-> FALSE,
                  artist |-> [base EXCEPT
                      !.simplified = JsBool(FALSE),
                      !.totalFollowers = Get(Get(data, "followers"), "total"),
                      !.genres = Get(data, "genres"),
                      !.popularity = Get(data, "popularity")]]

JsArtist(a) == [t |-> "Artist", v |-> a]

\* new Track(x, client), new Album(x, client): an entity over the raw record.
EntityCtor(kind, raw) == [t |-> kind, v |-> raw]

\* new Kind(x, client) raises
CtorThrows(kind, raw) == kind = "Artist" /\ ArtistCtor(raw).threw

Construct(kind, raw) ==
    IF kind = "Artist" THEN JsArtist(ArtistCtor(raw).artist)
    ELSE EntityCtor(kind, raw)

(***************************************************************************)
(* The paging envelope a list method builds from the decoded page:         *)
(* { limit, offset, total, items: page.items.map(x => new Kind(x)) }.      *)
(* Reading page.limit raises when page is undefined, page.items.map when   *)
(* items is no array, and a raising constructor ends the map.              *)
(***************************************************************************)
PagingThrows(page, kind) ==
    \/ ~CanRead(page)
    \/ Get(page, "items").t # "array"
    \/ \E i \in 1..Len(Get(page, "items").v) :
          CtorThrows(kind, Get(page, "items").v[i])

PagingOf(page, kind) ==
    LET items == Get(page, "items").v
    IN JsObj({<<"limit", Get(page, "limit")>>,
              <<"offset", Get(page, "offset")>>,
              <<"total", Get(page, "total")>>,
              <<"items", JsArr([i \in 1..Len(items) |->
                                   Construct(kind, items[i])])>>})

\* try { page -> envelope } catch(e) { return handleError(e) || zero envelope }
ListThen(ok, page, err, kind, throws) ==
    IF ~ok THEN CatchFallback(err, ZeroPaging, throws)
    ELSE IF PagingThrows(page, kind)
         THEN CatchFallback(TypeError, ZeroPaging, throws)
         ELSE Returned(PagingOf(page, kind))

getTopTracksThen(resp, throws) ==
    ListThen(resp.ok, resp.data, resp.data, "Track", throws)

getTopArtistsThen(resp, throws) ==
    ListThen(resp.ok, resp.data, resp.data, "Artist", throws)

\* (await fetch('/me/following', ...)).artists
getFollowingArtistsThen(resp, throws) ==
    IF resp.ok /\ ~CanRead(resp.data)
    THEN CatchFallback(TypeError, ZeroPaging, throws)
    ELSE ListThen(resp.ok, Get(resp.data, "artists"), resp.data, "Artist",
                  throws)

getAlbumsThen(resp, throws) ==
    ListThen(resp.ok, resp.data, resp.data, "Album", throws)

(***************************************************************************)
(* The mutating methods: true after the awaited request, and               *)
(* handleError(e) || false when it rejects.                                *)
(***************************************************************************)
followPlaylistThen(resp, throws) ==
    IF resp.ok THEN Returned(JsBool(TRUE))
    ELSE CatchFallback(resp.data, JsBool(FALSE), throws)

unfollowPlaylistThen(resp, throws) ==
    IF resp.ok THEN Returned(JsBool(TRUE))
    ELSE CatchFallback(resp.data, JsBool(FALSE), throws)

followArtistsThen(resp, throws) ==
    IF resp.ok THEN Returned(JsBool(TRUE))
    ELSE CatchFallback(resp.data, JsBool(FALSE), throws)

unfollowArtistsThen(resp, throws) ==
    IF resp.ok THEN Returned(JsBool(TRUE))
    ELSE CatchFallback(resp.data, JsBool(FALSE), throws)

followUsersThen(resp, throws) ==
    IF resp.ok THEN Returned(JsBool(TRUE))
    ELSE CatchFallback(resp.data, JsBool(FALSE), throws)

unfollowUsersThen(resp, throws) ==
    IF resp.ok THEN Returned(JsBool(TRUE))
    ELSE CatchFallback(resp.data, JsBool(FALSE), throws)

addAlbumsThen(resp, throws) ==
    IF resp.ok THEN Returned(JsBool(TRUE))
    ELSE CatchFallback(resp.data, JsBool(FALSE), throws)

deleteAlbumsThen(resp, throws) ==
    IF resp.ok THEN Returned(JsBool(TRUE))
    ELSE CatchFallback(resp.data, JsBool(FALSE), throws)

(***************************************************************************)
(* The boolean-array methods: the decoded response itself, and             *)
(* handleError(e) || [] when the request rejects.                          *)
(***************************************************************************)
followsArtistsThen(resp, throws) ==
    IF resp.ok THEN Returned(resp.data)
    ELSE CatchFallback(resp.data, JsArr(<<>>), throws)

followsUsersThen(resp, throws) ==
    IF resp.ok THEN Returned(resp.data)
    ELSE CatchFallback(resp.data, JsArr(<<>>), throws)

hasAlbumsThen(resp, throws) ==
    IF resp.ok THEN Returned(resp.data)
    ELSE CatchFallback(resp.data, JsArr(<<>>), throws)

(***************************************************************************)
(* followsPlaylist: (await client.playlists.userFollows(id, this.id))[0]   *)
(* || false, with no try/catch of its own.  userFollows is a method of the *)
(* playlist resource client: the decoded answer, or its fallback [].       *)
(***************************************************************************)
userFollowsThen(resp, throws) ==
    IF resp.ok THEN Returned(resp.data)
    ELSE CatchFallback(resp.data, JsArr(<<>>), throws)

followsPlaylistThen(resp, throws) ==
    LET r == userFollowsThen(resp, throws)
    IN IF r.kind = "raised" THEN r
       ELSE Returned(JsOr(JsIndex(r.value, 0), JsBool(FALSE)))

(***************************************************************************)
(* Requests.  An id of a variadic method is a sequence of characters, so   *)
(* that ids.join(',') is the string the service has to take apart again.   *)
(* The ids entry of params is kept in its own field for that reason; the   *)
(* other entries are in params.                                            *)
(***************************************************************************)
\* the ids joined last to first
RECURSIVE join_reversed(_, _)
join_reversed(ids, sep) ==
    IF Len(ids) = 0 THEN <<>>
    ELSE IF Len(ids) = 1 THEN ids[1]
    ELSE join_reversed(Tail(ids), sep) \o <<sep>> \o ids[1]

RECURSIVE join(_, _)
join(ids, sep) ==
    IF Len(ids) = 0 THEN <<>>
    ELSE IF Len(ids) = 1 THEN ids[1]
    ELSE ids[1] \o <<sep>> \o join(Tail(ids), sep)

Request(method, path, params, ids, body) ==
    [method |-> method, path |-> path, params |-> params, ids |-> ids,
     body |-> body]

\* a parameter's default value
Default(x, d) == IF x.t = "undefined" THEN d ELSE x

\* { ...o, k: v }
With(o, k, v) ==
    JsObj({p \in (IF o.t = "object" THEN o.v ELSE {}) : p[1] # k}
          \cup {<<k, v>>})

infoRequest == Request("GET", <<"me">>, JsUndefined, <<>>, JsUndefined)

getTopTracksRequest(options) ==
    Request("GET", <<"me", "top", "tracks">>, Default(options, JsObj({})),
            <<>>, JsUndefined)

getTopArtistsRequest(options) ==
    Request("GET", <<"me", "top", "artists">>, Default(options, JsObj({})),
            <<>>, JsUndefined)

\* body: { public: options.public || true }
followPlaylistBody(options) ==
    JsObj({<<"public", JsOr(Get(options, "public"), JsBool(TRUE))>>})

followPlaylistRequest(id, options) ==
    Request("PUT", <<"playlists", id, "followers">>, JsUndefined, <<>>,
            followPlaylistBody(
                Default(options, JsObj({<<"public", JsBool(TRUE)>>}))))

unfollowPlaylistRequest(id) ==
    Request("DELETE", <<"playlists", id, "followers">>, JsUndefined, <<>>,
            JsUndefined)

\* client.playlists.userFollows(id, userId): one user id, nothing to join
userFollowsRequest(id, userId) ==
    Request("GET", <<"playlists", id, "followers", "contains">>,
            JsObj({<<"ids", userId>>}), <<>>, JsUndefined)

followsPlaylistRequest(self, id) == userFollowsRequest(id, self.id)

getFollowingArtistsRequest(options) ==
    Request("GET", <<"me", "following">>,
            With(options, "type", JsStr("artist")), <<>>, JsUndefined)

FollowingRequest(method, path, type, ids) ==
    Request(method, path, JsObj({<<"type", JsStr(type)>>}), join(ids, ","),
            JsUndefined)

followArtistsRequest(ids) ==
    FollowingRequest("PUT", <<"me", "following">>, "artist", ids)

unfollowArtistsRequest(ids) ==
    FollowingRequest("DELETE", <<"me", "following">>, "artist", ids)

followUsersRequest(ids) ==
    FollowingRequest("PUT", <<"me", "following">>, "user", ids)

unfollowUsersRequest(ids) ==
    FollowingRequest("DELETE", <<"me", "following">>, "user", ids)

followsArtistsRequest(ids) ==
    FollowingRequest("GET", <<"me", "following", "contains">>, "artist", ids)

followsUsersRequest(ids) ==
    FollowingRequest("GET", <<"me", "following", "contains">>, "user", ids)

getAlbumsRequest(options) ==
    Request("GET", <<"me", "albums">>, options, <<>>, JsUndefined)

addAlbumsRequest(ids) ==
    Request("PUT", <<"me", "albums">>, JsObj({}), join(ids, ","), JsUndefined)

deleteAlbumsRequest(ids) ==
    Request("DELETE", <<"me", "albums">>, JsObj({}), join(ids, ","),
            JsUndefined)

hasAlbumsRequest(ids) ==
    Request("GET", <<"me", "albums", "contains">>, JsObj({}), join(ids, ","),
            JsUndefined)

(***************************************************************************)
(* The streaming service behind the HTTP util: the inputs of the model.    *)
(***************************************************************************)
CurrentUserId == "u1"
PlaylistIds == {"p1"}
\* The id lists passed to the variadic methods: the first n ids of IdPool.
IdPool == <<<<"b", "c">>, <<"a">>, <<"d">>, <<"a", "b">>, <<"c">>>>
IdLists == {SubSeq(IdPool, 1, n) : n \in 0..MaxIds}

AffinityOptions == {JsUndefined, JsObj({<<"limit", JsNum(1)>>})}
FollowOptions ==
    {JsUndefined, JsObj({}), JsObj({<<"public", JsBool(TRUE)>>}),
     JsObj({<<"public", JsBool(FALSE)>>})}

\* The user object of GET /me: country, email and product are optional.
MeObject(name, total, optional, hasFollowers) ==
    JsObj({<<"id", JsStr(CurrentUserId)>>,
           <<"display_name", JsStr(name)>>,
           <<"external_urls", JsObj({<<"spotify", JsStr("url:u1")>>})>>,
           <<"href", JsStr("h")>>,
           <<"images", JsArr(<<JsStr(name)>>)>>,
           <<"uri", JsStr("spotify:user:u1")>>}
          \cup (IF hasFollowers
                THEN {<<"followers", JsObj({<<"total", JsNum(total)>>})>>}
                ELSE {})
          \cup (IF "country" \in optional
                THEN {<<"country", JsStr("DE")>>} ELSE {})
          \cup (IF "email" \in optional
                THEN {<<"email", JsStr("a@x")>>} ELSE {})
          \cup (IF "product" \in optional
                THEN {<<"product", JsStr("premium")>>} ELSE {}))

MePayloads ==
    {MeObject("Alice", 5, {}, TRUE),
     MeObject("Alice", 5, {"country"}, TRUE),
     MeObject("Alicia", 6, {"country", "email", "product"}, TRUE),
     MeObject("Alicia", 6, {"email", "product"}, FALSE),
     JsUndefined}

ArtistObject(id, name, keys, popularity) ==
    JsObj({<<"id", JsStr(id)>>, <<"name", JsStr(name)>>,
           <<"external_urls", JsObj({})>>, <<"href", JsStr("h:" \o id)>>,
           <<"type", JsStr("artist")>>, <<"uri", JsStr("uri:" \o id)>>}
          \cup (IF "images" \in keys
                THEN {<<"images", JsArr(<<JsStr("img:" \o name)>>)>>} ELSE {})
          \cup (IF "followers" \in keys
                THEN {<<"followers", JsObj({<<"total", JsNum(7)>>})>>}
                ELSE {})
          \cup (IF "genres" \in keys
                THEN {<<"genres", JsArr(<<JsStr("rock")>>)>>} ELSE {})
          \cup (IF "popularity" \in keys
                THEN {<<"popularity", JsNum(popularity)>>} ELSE {}))

FullKeys == {"images", "followers", "genres", "popularity"}

Page(items) ==
    JsObj({<<"limit", JsNum(20)>>, <<"offset", JsNum(0)>>,
           <<"total", JsNum(Len(items))>>, <<"items", JsArr(items)>>})

\* Decoded bodies of a list endpoint: a page of one item, a page whose item
\* breaks its constructor, and a body that is no page.
Pages(kind) ==
    IF kind = "Artist"
    THEN {Page(<<ArtistObject("a", "A", FullKeys, 50)>>),
          Page(<<ArtistObject("a", "A", {"popularity"}, 50)>>), JsObj({})}
    ELSE {Page(<<JsObj({<<"id", JsStr("x")>>})>>), JsObj({})}

RECURSIVE split(_, _)
split(s, sep) ==
    IF \E i \in 1..Len(s) : s[i] = sep
    THEN LET i == CHOOSE i \in 1..Len(s) :
                      s[i] = sep /\ \A j \in 1..(i - 1) : s[j] # sep
         IN <<SubSeq(s, 1, i - 1)>> \o split(SubSeq(s, i + 1, Len(s)), sep)
    ELSE <<s>>

Range(f) == {f[i] : i \in DOMAIN f}

\* GET .../contains?ids=...: one boolean per id of the query, in its order.
ContainsAnswer(ids, library) ==
    LET asked == split(ids, ",")
    IN JsArr([k \in 1..Len(asked) |-> JsBool(asked[k] \in library)])

RemoteInit ==
    [artists |-> {<<"a">>}, users |-> {<<"b", "c">>}, albums |-> {<<"a">>},
     playlists |-> {"p1"}]

Library(req) ==
    IF req.path[2] = "albums" THEN "albums"
    ELSE IF Get(req.params, "type") = JsStr("user") THEN "users"
    ELSE "artists"

IsContains(req) == req.path[Len(req.path)] = "contains"
IsPlaylist(req) == req.path[1] = "playlists"
NeedsIds(req) ==
    ~IsPlaylist(req) /\ (req.method # "GET" \/ IsContains(req))

\* What the HTTP util can hand back for a request: always a rejection, and
\* the decoded body the service answers with.
Responses(req, rem) ==
    {Reject} \cup
    (IF req.path = <<"me">> THEN {Resolve(p) : p \in MePayloads}
     ELSE IF IsPlaylist(req)
     THEN IF IsContains(req)
          THEN {Resolve(JsArr(<<JsBool(
                   /\ Get(req.params, "ids") = JsStr(CurrentUserId)
                   /\ req.path[2] \in rem.playlists)>>))}
          ELSE {Resolve(JsUndefined)}
     ELSE IF NeedsIds(req)
     THEN IF req.ids = <<>> THEN {}
          ELSE IF IsContains(req)
               THEN {Resolve(ContainsAnswer(req.ids, rem[Library(req)]))}
               ELSE {Resolve(JsUndefined)}
     ELSE IF req.path = <<"me", "following">>
     THEN {Resolve(JsObj({<<"artists", p>>})) : p \in Pages("Artist")}
          \cup {Resolve(JsUndefined)}
     ELSE IF req.path = <<"me", "top", "artists">>
     THEN {Resolve(p) : p \in Pages("Artist")}
     ELSE IF req.path = <<"me", "albums">>
     THEN {Resolve(p) : p \in Pages("Album")}
     ELSE {Resolve(p) : p \in Pages("Track")})

\* The service's library after it has carried out a request.
Effect(req, rem) ==
    IF req.method = "GET" THEN rem
    ELSE IF IsPlaylist(req)
    THEN [rem EXCEPT !.playlists =
             IF req.method = "PUT" THEN @ \cup {req.path[2]}
             ELSE @ \ {req.path[2]}]
    ELSE [rem EXCEPT ![Library(req)] =
             IF req.method = "PUT" THEN @ \cup Range(split(req.ids, ","))
             ELSE @ \ Range(split(req.ids, ","))]

(***************************************************************************)
(* UserClient: the calls.  A call builds its request and waits.            *)
(***************************************************************************)
Call(op, id, ids, options, req) ==
    [op |-> op, id |-> id, ids |-> ids, options |-> options, req |-> req]

NoCall ==
    [op |-> "none", id |-> "", ids |-> <<>>, options |-> JsUndefined,
     req |-> infoRequest, resp |-> Reject, out |-> Returned(JsUndefined),
     before |-> UserClientInit]

InfoInFlight == {c \in BagToSet(inflight) : c.op = "info"}

\* another call may be started
CanStart == started < MaxOps

Launch(call) ==
    /\ started' = started + 1
    /\ inflight' = inflight (+) SetToBag({call})
    /\ hist' = IF call.op = "info"
               THEN [hist EXCEPT !.overlapped = @ \/ InfoInFlight # {}]
               ELSE hist
    /\ UNCHANGED <<throwErrors, profile, remote, last, artistVars>>

info ==
    /\ CanStart
    /\ Launch(Call("info", "", <<>>, JsUndefined, infoRequest))

getTopTracks ==
    \E options \in AffinityOptions :
        /\ CanStart
        /\ Launch(Call("getTopTracks", "", <<>>, options,
                   getTopTracksRequest(options)))

getTopArtists ==
    \E options \in AffinityOptions :
        /\ CanStart
        /\ Launch(Call("getTopArtists", "", <<>>, options,
                   getTopArtistsRequest(options)))

followPlaylist ==
    \E id \in PlaylistIds, options \in FollowOptions :
        /\ CanStart
        /\ Launch(Call("followPlaylist", id, <<>>, options,
                   followPlaylistRequest(id, options)))

unfollowPlaylist ==
    \E id \in PlaylistIds :
        /\ CanStart
        /\ Launch(Call("unfollowPlaylist", id, <<>>, JsUndefined,
                   unfollowPlaylistRequest(id)))

followsPlaylist ==
    \E id \in PlaylistIds :
        /\ CanStart
        /\ Launch(Call("followsPlaylist", id, <<>>, JsUndefined,
                   followsPlaylistRequest(profile, id)))

getFollowingArtists ==
    \E options \in AffinityOptions :
        /\ CanStart
        /\ Launch(Call("getFollowingArtists", "", <<>>, options,
                   getFollowingArtistsRequest(options)))

followArtists ==
    \E ids \in IdLists :
        /\ CanStart
        /\ Launch(Call("followArtists", "", ids, JsUndefined,
                   followArtistsRequest(ids)))

unfollowArtists ==
    \E ids \in IdLists :
        /\ CanStart
        /\ Launch(Call("unfollowArtists", "", ids, JsUndefined,
                   unfollowArtistsRequest(ids)))

followUsers ==
    \E ids \in IdLists :
        /\ CanStart
        /\ Launch(Call("followUsers", "", ids, JsUndefined,
                   followUsersRequest(ids)))

unfollowUsers ==
    \E ids \in IdLists :
        /\ CanStart
        /\ Launch(Call("unfollowUsers", "", ids, JsUndefined,
                   unfollowUsersRequest(ids)))

followsArtists ==
    \E ids \in IdLists :
        /\ CanStart
        /\ Launch(Call("followsArtists", "", ids, JsUndefined,
                   followsArtistsRequest(ids)))

followsUsers ==
    \E ids \in IdLists :
        /\ CanStart
        /\ Launch(Call("followsUsers", "", ids, JsUndefined,
                   followsUsersRequest(ids)))

getAlbums ==
    \E options \in AffinityOptions :
        /\ CanStart
        /\ Launch(Call("getAlbums", "", <<>>, options, getAlbumsRequest(options)))

addAlbums ==
    \E ids \in IdLists :
        /\ CanStart
        /\ Launch(Call("addAlbums", "", ids, JsUndefined, addAlbumsRequest(ids)))

deleteAlbums ==
    \E ids \in IdLists :
        /\ CanStart
        /\ Launch(Call("deleteAlbums", "", ids, JsUndefined,
                   deleteAlbumsRequest(ids)))

hasAlbums ==
    \E ids \in IdLists :
        /\ CanStart
        /\ Launch(Call("hasAlbums", "", ids, JsUndefined, hasAlbumsRequest(ids)))

(***************************************************************************)
(* The rest of a method once the util has answered.  Only info() assigns   *)
(* to the client's fields.                                                 *)
(***************************************************************************)
Keep(self, out) == [self |-> self, out |-> out]

Continue(op, self, resp, throws) ==
    CASE op = "info" -> InfoThen(self, resp)
      [] op = "getTopTracks" -> Keep(self, getTopTracksThen(resp, throws))
      [] op = "getTopArtists" -> Keep(self, getTopArtistsThen(resp, throws))
      [] op = "followPlaylist" -> Keep(self, followPlaylistThen(resp, throws))
      [] op = "unfollowPlaylist" ->
            Keep(self, unfollowPlaylistThen(resp, throws))
      [] op = "followsPlaylist" ->
            Keep(self, followsPlaylistThen(resp, throws))
      [] op = "getFollowingArtists" ->
            Keep(self, getFollowingArtistsThen(resp, throws))
      [] op = "followArtists" -> Keep(self, followArtistsThen(resp, throws))
      [] op = "unfollowArtists" ->
            Keep(self, unfollowArtistsThen(resp, throws))
      [] op = "followUsers" -> Keep(self, followUsersThen(resp, throws))
      [] op = "unfollowUsers" -> Keep(self, unfollowUsersThen(resp, throws))
      [] op = "followsArtists" -> Keep(self, followsArtistsThen(resp, throws))
      [] op = "followsUsers" -> Keep(self, followsUsersThen(resp, throws))
      [] op = "getAlbums" -> Keep(self, getAlbumsThen(resp, throws))
      [] op = "addAlbums" -> Keep(self, addAlbumsThen(resp, throws))
      [] op = "deleteAlbums" -> Keep(self, deleteAlbumsThen(resp, throws))
      [] op = "hasAlbums" -> Keep(self, hasAlbumsThen(resp, throws))

\* The util resolves or rejects the request of a waiting call, and the call
\* runs on to its end.
Settle ==
    \E c \in BagToSet(inflight) :
      \E resp \in Responses(c.req, remote) :
        LET r == Continue(c.op, profile, resp, throwErrors)
        IN /\ profile' = r.self
           /\ remote' = IF resp.ok THEN Effect(c.req, remote) ELSE remote
           /\ inflight' = inflight (-) SetToBag({c})
           /\ last' = [op |-> c.op, id |-> c.id, ids |-> c.ids,
                       options |-> c.options, req |-> c.req, resp |-> resp,
                       out |-> r.out, before |-> profile]
           /\ hist' = IF c.op # "info" THEN hist
                      ELSE [returned |-> hist.returned
                                + (IF r.out.kind = "returned" THEN 1 ELSE 0),
                            raised |-> hist.raised \/ r.out.kind = "raised",
                            overlapped |-> hist.overlapped,
                            data |-> resp.data]
           /\ UNCHANGED <<throwErrors, started, artistVars>>

UserInit ==
    /\ throwErrors \in BOOLEAN
    /\ profile = UserClientInit
    /\ remote = RemoteInit
    /\ inflight = EmptyBag
    /\ started = 0
    /\ last = NoCall
    /\ hist = [returned |-> 0, raised |-> FALSE, overlapped |-> FALSE,
               data |-> JsUndefined]

NoFetch ==
    [done |-> FALSE, resp |-> Reject, out |-> Returned(JsUndefined)]

ArtistIdle ==
    /\ entity = JsUndefined
    /\ built = [done |-> FALSE, data |-> JsUndefined, threw |-> FALSE]
    /\ fetching = JsUndefined
    /\ fetched = NoFetch

Init == UserInit /\ ArtistIdle

Next ==
    \/ info
    \/ getTopTracks
    \/ getTopArtists
    \/ followPlaylist
    \/ unfollowPlaylist
    \/ followsPlaylist
    \/ getFollowingArtists
    \/ followArtists
    \/ unfollowArtists
    \/ followUsers
    \/ unfollowUsers
    \/ followsArtists
    \/ followsUsers
    \/ getAlbums
    \/ addAlbums
    \/ deleteAlbums
    \/ hasAlbums
    \/ Settle

Spec == Init /\ [][Next]_vars

(***************************************************************************)
(* Artist: construction from a raw record, and fetch().                    *)
(***************************************************************************)
ArtistNames == {"A", "B"}
ArtistKeySets == (SUBSET {"followers", "genres", "popularity"}) \cup {FullKeys}

\* Raw records handed to the constructor: any subset of the full-only keys
\* (with images for the full object), and a popularity of 0 or 50 when the
\* key is there.
ArtistRecords ==
    {ArtistObject("a", name, keys, popularity) :
        name \in ArtistNames, keys \in ArtistKeySets, popularity \in {0, 50}}

\* GET /artists/{id} answers with the full object of that artist.
FullArtistRecords(id) ==
    {r \in {ArtistObject("a", name, FullKeys, popularity) :
                name \in ArtistNames, popularity \in {0, 50}} :
        Get(r, "id") = id}

\* client.artists.get(id) once the util has answered: the single-entity
\* getter of the artist resource client.
artistsGetThen(resp, throws) ==
    IF ~resp.ok THEN handleError(resp.data, throws)
    ELSE IF ArtistCtor(resp.data).threw THEN handleError(TypeError, throws)
    ELSE Returned(JsArtist(ArtistCtor(resp.data).artist))

\* fetch(): return await this.client.artists.get(this.id) as Artist;
\* nothing is assigned to this.
ArtistFetchThen(self, got) == [self |-> self, out |-> got]

\* new Artist(data, client)
newArtist ==
    \E data \in ArtistRecords :
        LET c == ArtistCtor(data)
        IN /\ built' = [done |-> TRUE, data |-> data, threw |-> c.threw]
           /\ entity' = IF c.threw THEN entity ELSE JsArtist(c.artist)
           /\ fetched' = IF c.threw THEN fetched ELSE NoFetch
           /\ UNCHANGED <<userVars, fetching>>

\* artist.fetch() up to its await
fetch ==
    /\ entity.t = "Artist"
    /\ fetching = JsUndefined
    /\ fetching' = entity.v.id
    /\ UNCHANGED <<userVars, entity, built, fetched>>

\* the util answers the pending fetch()
fetchSettle ==
    /\ fetching # JsUndefined
    /\ \E resp \in {Reject} \cup {Resolve(r) : r \in FullArtistRecords(fetching)} :
          LET r == ArtistFetchThen(entity, artistsGetThen(resp, throwErrors))
          IN /\ entity' = r.self
             /\ fetched' = [done |-> TRUE, resp |-> resp, out |-> r.out]
    /\ fetching' = JsUndefined
    /\ UNCHANGED <<userVars, built>>

ArtistNext == newArtist \/ fetch \/ fetchSettle

ArtistSpec == Init /\ [][ArtistNext]_vars

(***************************************************************************)
(* Properties.                                                             *)
(***************************************************************************)
Calls == BagToSet(inflight)

ListOps == {"getTopTracks", "getTopArtists", "getFollowingArtists", "getAlbums"}
BoolArrayOps == {"followsArtists", "followsUsers", "hasAlbums"}
MutatingOps ==
    {"followPlaylist", "unfollowPlaylist", "followArtists", "unfollowArtists",
     "followUsers", "unfollowUsers", "addAlbums", "deleteAlbums"}

\* C1: the public field of the body followPlaylist sends is the caller's
\* options.public when the caller supplied one, and true when the caller
\* supplied no options.
C1_PublicAsSupplied ==
    \A c \in Calls :
        c.op = "followPlaylist" =>
            Get(c.req.body, "public") =
                (IF HasKey(c.options, "public") THEN Get(c.options, "public")
                 ELSE JsBool(TRUE))

\* C3: with errors suppressed, a method whose request failed returns a value
\* to its caller; it does not raise.
C3_NoRaiseWhenSuppressed ==
    (last.op # "none" /\ ~throwErrors /\ ~last.resp.ok)
        => last.out.kind = "returned"

ZeroEnvelope ==
    JsObj({<<"limit", JsNum(0)>>, <<"offset", JsNum(0)>>,
           <<"total", JsNum(0)>>, <<"items", JsArr(<<>>)>>})

\* C4: when the request failed and the error translator did not raise, a list
\* method returns the zero-valued paging envelope, a boolean-array method the
\* empty array and a mutating method false; a mutating method returns true
\* only when its request succeeded.
C4_TypedFallback ==
    /\ (last.op # "none" /\ ~throwErrors /\ ~last.resp.ok) =>
          /\ last.op \in ListOps => last.out = Returned(ZeroEnvelope)
          /\ last.op \in BoolArrayOps => last.out = Returned(JsArr(<<>>))
          /\ last.op \in MutatingOps => last.out = Returned(JsBool(FALSE))
    /\ (last.op \in MutatingOps /\ last.out = Returned(JsBool(TRUE)))
          => last.resp.ok

\* A failed getTopTracks under suppressed errors has returned the envelope.
C4_Witness ==
    /\ last.op = "getTopTracks"
    /\ ~throwErrors
    /\ ~last.resp.ok
    /\ last.out = Returned(ZeroEnvelope)

\* The library a boolean-array method asks about.
AskedLibrary(op) ==
    IF op = "hasAlbums" THEN remote.albums
    ELSE IF op = "followsUsers" THEN remote.users
    ELSE remote.artists

\* The array mirrors the id list: same length, k-th element for the k-th id.
Mirrors(value, ids, library) ==
    /\ value.t = "array"
    /\ Len(value.v) = Len(ids)
    /\ \A k \in 1..Len(ids) : value.v[k] = JsBool(ids[k] \in library)

\* C5 as stated: for every non-empty id list passed to followsArtists,
\* followsUsers or hasAlbums, the array the method returns mirrors the list.
C5_MirrorsAlways ==
    (last.op \in BoolArrayOps /\ last.ids # <<>> /\ last.out.kind = "returned")
        => Mirrors(last.out.value, last.ids, AskedLibrary(last.op))

\* C5, amended: for every non-empty id list passed to followsArtists,
\* followsUsers or hasAlbums whose request succeeds, the method returns an
\* array that mirrors the list.
C5_MirrorsOnSuccess ==
    (last.op \in BoolArrayOps /\ last.ids # <<>> /\ last.resp.ok)
        => /\ last.out.kind = "returned"
           /\ Mirrors(last.out.value, last.ids, AskedLibrary(last.op))

\* followsArtists('bc', 'a') has answered [false, true].
C5_Witness ==
    /\ last.op = "followsArtists"
    /\ last.resp.ok
    /\ last.ids = <<<<"b", "c">>, <<"a">>>>
    /\ last.out = Returned(JsArr(<<JsBool(FALSE), JsBool(TRUE)>>))

\* The profile a user object of GET /me stands for.
OrUnknown(d, k) == IF HasKey(d, k) THEN Get(d, k) ELSE JsStr("unknown")

ExpectedProfile(d) ==
    [name |-> Get(d, "display_name"),
     country |-> OrUnknown(d, "country"),
     id |-> Get(d, "id"),
     email |-> OrUnknown(d, "email"),
     externalUrls |-> Get(d, "external_urls"),
     totalFollowers |-> Get(Get(d, "followers"), "total"),
     href |-> Get(d, "href"),
     images |-> Get(d, "images"),
     product |-> OrUnknown(d, "product"),
     uri |-> Get(d, "uri")]

C8_LastResponseWins ==
    (hist.returned >= 1 /\ ~hist.raised)
        => profile = ExpectedProfile(hist.data)

\* Two overlapping info() calls have both returned, and the second response
\* replaced the name the first one had set.
C8_Witness ==
    /\ hist.overlapped
    /\ hist.returned = 2
    /\ ~hist.raised
    /\ Calls = {}
    /\ last.op = "info"
    /\ last.before.name # profile.name
    /\ last.before.name # JsStr("")

\* C9: a call other than an info() that returns leaves the cached profile as
\* it was before the call; so does an info() that raises.
C9_OnlyInfoSuccessWrites ==
    (last.op # "none" /\ ~(last.op = "info" /\ last.out.kind = "returned"))
        => profile = last.before

\* C10: followsPlaylist asks about the current user, and answers with the
\* first element of the check's answer, or false when the answer is empty.
C10_AsksAboutCurrentUser ==
    /\ \A c \in Calls :
          c.op = "followsPlaylist" =>
              Get(c.req.params, "ids") = JsStr(CurrentUserId)
    /\ (last.op = "followsPlaylist" /\ last.out.kind = "returned") =>
          LET answer == IF last.resp.ok THEN last.resp.data.v ELSE <<>>
          IN last.out.value =
                 (IF answer = <<>> THEN JsBool(FALSE) ELSE answer[1])

\* C2: after fetch() has completed successfully, every field of the entity it
\* was called on holds the value of the newly retrieved record.
C2_FetchRefreshesEntity ==
    (fetched.done /\ fetched.resp.ok /\ fetched.out.kind = "returned")
        => LET d == fetched.resp.data
               a == entity.v
           IN /\ a.externalUrls = Get(d, "external_urls")
              /\ a.href = Get(d, "href")
              /\ a.id = Get(d, "id")
              /\ a.name = Get(d, "name")
              /\ a.type = Get(d, "type")
              /\ a.uri = Get(d, "uri")
              /\ a.images = Get(d, "images")
              /\ a.simplified = JsBool(FALSE)
              /\ a.totalFollowers = Get(Get(d, "followers"), "total")
              /\ a.genres = Get(d, "genres")
              /\ a.popularity = Get(d, "popularity")

FullOnlyUndefined(a) ==
    /\ a.totalFollowers = JsUndefined
    /\ a.genres = JsUndefined
    /\ a.popularity = JsUndefined

\* C6 as stated: an Artist built from a record with the key popularity has
\* simplified false and totalFollowers, genres and popularity populated; one
\* built from a record without the key has simplified true and the three
\* undefined.
C6_PopularityMeansPopulated ==
    (built.done /\ ~built.threw)
        => LET a == entity.v
           IN IF HasKey(built.data, "popularity")
              THEN /\ a.simplified = JsBool(FALSE)
                   /\ a.totalFollowers # JsUndefined
                   /\ a.genres # JsUndefined
                   /\ a.popularity # JsUndefined
              ELSE a.simplified = JsBool(TRUE) /\ FullOnlyUndefined(a)

\* C6, amended: the key popularity alone decides.  With the key, the
\* constructor raises when the record has no followers object, and otherwise
\* builds an Artist with simplified false whose totalFollowers, genres and
\* popularity are the record's followers.total, genres and popularity
\* (undefined where the record has none).  Without the key it builds an
\* Artist with simplified true and the three undefined.
C6_KeyAloneDecides ==
    built.done
        => LET d == built.data
               a == entity.v
           IN IF HasKey(d, "popularity")
              THEN IF HasKey(d, "followers")
                   THEN /\ ~built.threw
                        /\ a.simplified = JsBool(FALSE)
                        /\ a.totalFollowers = Get(Get(d, "followers"), "total")
                        /\ a.genres = Get(d, "genres")
                        /\ a.popularity = Get(d, "popularity")
                   ELSE built.threw
              ELSE /\ ~built.threw
                   /\ a.simplified = JsBool(TRUE)
                   /\ FullOnlyUndefined(a)

\* A record with followers and genres but no popularity has been built into
\* a simplified Artist.
C6_Witness ==
    /\ built.done
    /\ ~built.threw
    /\ ~HasKey(built.data, "popularity")
    /\ HasKey(built.data, "followers")
    /\ HasKey(built.data, "genres")
    /\ entity.v.data = built.data
    /\ entity.v.simplified = JsBool(TRUE)

====
